---- MODULE Spec2Model ----
(***************************************************************************)
(* Model of xiaozhi_app/android/api.py: the Termux RPC client.  One        *)
(* command instance, its caller thread (execute) and its worker thread     *)
(* (run), interleaved at the granularity of their accesses to the shared   *)
(* fields _socket, _event_stop, _error and _result.  The remote server is  *)
(* the environment: it decides the outcome of connect / sendall / recv and *)
(* which bytes each recv returns.                                          *)
(***************************************************************************)
EXTENDS Integers, Sequences, FiniteSets, TLC

\* ------------------------------------------------------------------ bounds
\* number of lines the server streams in one conversation
MaxLines == 2
\* a read may end inside a line only within the first MaxCut bytes of the line
MaxCut == 7

\* ------------------------------------------------------- program constants
RECV_BUFFER_SIZE == 1024
NEWLINE == 10

\* ------------------------------------------------------------ Python values
\* None, a str, and the f-strings the client builds (prefix + inserted part)
PyNone == [t |-> "NoneType", s |-> "", name |-> "", line |-> <<>>]
PyStr(s) == [t |-> "str", s |-> s, name |-> "", line |-> <<>>]
PyFmtName(s, n) == [t |-> "str", s |-> s, name |-> n, line |-> <<>>]
PyFmtLine(s, l) == [t |-> "str", s |-> s, name |-> "", line |-> l]

\* exception objects: class and str(e)
Exc(type, msg) == [type |-> type, msg |-> msg]
NoExc == Exc("", "")
\* the classes raised on the worker path; all derive from Exception
ExceptionSubclasses ==
    {"socket.timeout", "ConnectionRefusedError", "OSError", "AttributeError",
     "NotImplementedError", "UnicodeDecodeError", "TypeError", "KeyError"}

\* -------------------------------------------------------------- the classes
Variants ==
    {"TermuxRpcClient", "TermuxLocationCommand",
     "TermuxNotificationListCommand", "TermuxNotificationRemoveCommand"}

API_METHOD(v) ==
    CASE v = "TermuxLocationCommand" -> "Location"
      [] v = "TermuxNotificationListCommand" -> "NotificationList"
      [] v = "TermuxNotificationRemoveCommand" -> "NotificationRemove"
      [] OTHER -> "None"

\* to_dict: raises when the class declares no method identifier
ToDictRaises(v) == API_METHOD(v) = "None"

\* ------------------------------------------------------------ inbound lines
\* Each line is the byte sequence the server writes, newline included.
\* '{"error":"m"}'
L_err ==
    <<123, 34, 101, 114, 114, 111, 114, 34, 58, 34, 109, 34, 125, 10>>
\* '{"error":null}'
L_errnull ==
    <<123, 34, 101, 114, 114, 111, 114, 34, 58, 110, 117, 108, 108, 125, 10>>
\* '{"error":"m","permissions":[],"latitude":1}'
L_errlat ==
    <<123, 34, 101, 114, 114, 111, 114, 34, 58, 34, 109, 34, 44, 34, 112, 101,
      114, 109, 105, 115, 115, 105, 111, 110, 115, 34, 58, 91, 93, 44, 34, 108,
      97, 116, 105, 116, 117, 100, 101, 34, 58, 49, 125, 10>>
\* '{"latitude":1}'
L_lat1 ==
    <<123, 34, 108, 97, 116, 105, 116, 117, 100, 101, 34, 58, 49, 125, 10>>
\* '{"latitude":2}'
L_lat2 ==
    <<123, 34, 108, 97, 116, 105, 116, 117, 100, 101, 34, 58, 50, 125, 10>>
\* '{"s":"e-acute"}' : a data object without latitude, with a two-byte character
L_status ==
    <<123, 34, 115, 34, 58, 34, 195, 169, 34, 125, 10>>
\* 'e-acute' (two bytes) followed by a carriage return: not JSON
L_badjson ==
    <<195, 169, 13, 10>>
\* '5' : JSON, but not an object
L_int ==
    <<53, 10>>
\* byte 0xFF : not UTF-8
L_badutf8 ==
    <<255, 10>>
\* '{"permissions":[{"permission":"A","granted":true}]}'
L_permok ==
    <<123, 34, 112, 101, 114, 109, 105, 115, 115, 105, 111, 110, 115, 34, 58,
      91, 123, 34, 112, 101, 114, 109, 105, 115, 115, 105, 111, 110, 34, 58,
      34, 65, 34, 44, 34, 103, 114, 97, 110, 116, 101, 100, 34, 58, 116, 114,
      117, 101, 125, 93, 125, 10>>
\* '{"permissions":[{"permission":"A","granted":true},{"permission":"B","granted":false}]}'
L_permdeny ==
    <<123, 34, 112, 101, 114, 109, 105, 115, 115, 105, 111, 110, 115, 34, 58,
      91, 123, 34, 112, 101, 114, 109, 105, 115, 115, 105, 111, 110, 34, 58,
      34, 65, 34, 44, 34, 103, 114, 97, 110, 116, 101, 100, 34, 58, 116, 114,
      117, 101, 125, 44, 123, 34, 112, 101, 114, 109, 105, 115, 115, 105, 111,
      110, 34, 58, 34, 66, 34, 44, 34, 103, 114, 97, 110, 116, 101, 100, 34,
      58, 102, 97, 108, 115, 101, 125, 93, 125, 10>>
\* '{"permissions":[{}]}' : a permission record without its fields
L_permbad ==
    <<123, 34, 112, 101, 114, 109, 105, 115, 115, 105, 111, 110, 115, 34, 58,
      91, 123, 125, 93, 125, 10>>

\* the lines the server may stream
ServerLines ==
    {L_err, L_errnull, L_errlat, L_lat1, L_lat2, L_status, L_badjson, L_int,
     L_badutf8, L_permok, L_permdeny, L_permbad}

\* --------------------------------------------------------- bytes.decode()
\* UTF-8 decoding of a whole byte sequence: the code points, or a failure.
IsCont(b) == b >= 128 /\ b <= 191

\* number of bytes the character led by byte b takes (0: b cannot lead one)
Utf8Width(b) ==
    IF b < 128 THEN 1
    ELSE IF b >= 194 /\ b <= 223 THEN 2
    ELSE IF b >= 224 /\ b <= 239 THEN 3
    ELSE IF b >= 240 /\ b <= 244 THEN 4
    ELSE 0

\* positions of the bytes that are not continuation bytes, in order
Leads(bs) ==
    LET IsLead(i) == ~IsCont(bs[i])
    IN  SelectSeq([i \in 1..Len(bs) |-> i], IsLead)

\* the character at lead position i is complete and is followed by a lead
Utf8WellFormedAt(bs, i) ==
    LET w == Utf8Width(bs[i]) IN
    /\ w > 0
    /\ i + w - 1 <= Len(bs)
    /\ \A j \in (i + 1)..(i + w - 1) : IsCont(bs[j])
    /\ (i + w <= Len(bs) => ~IsCont(bs[i + w]))

Utf8CodePoint(bs, i) ==
    LET w == Utf8Width(bs[i]) IN
    CASE w = 1 -> bs[i]
      [] w = 2 -> (bs[i] - 192) * 64 + (bs[i + 1] - 128)
      [] w = 3 -> (bs[i] - 224) * 4096 + (bs[i + 1] - 128) * 64 + (bs[i + 2] - 128)
      [] OTHER -> (bs[i] - 240) * 262144 + (bs[i + 1] - 128) * 4096
                  + (bs[i + 2] - 128) * 64 + (bs[i + 3] - 128)

Decode(bs) ==
    LET leads == Leads(bs)
        ok == /\ (bs # <<>> => ~IsCont(bs[1]))
              /\ \A j \in 1..Len(leads) : Utf8WellFormedAt(bs, leads[j])
    IN  IF ok
          THEN [ok |-> TRUE,
                text |-> [j \in 1..Len(leads) |-> Utf8CodePoint(bs, leads[j])]]
          ELSE [ok |-> FALSE, text |-> <<>>]

\* ------------------------------------------------------------ str.strip()
IsSpace(c) == c \in {9, 10, 11, 12, 13, 28, 29, 30, 31, 32, 133, 160}

RECURSIVE LStrip(_)
LStrip(t) == IF t # <<>> /\ IsSpace(Head(t)) THEN LStrip(Tail(t)) ELSE t

RECURSIVE RStrip(_)
RStrip(t) ==
    IF t # <<>> /\ IsSpace(t[Len(t)]) THEN RStrip(SubSeq(t, 1, Len(t) - 1)) ELSE t

Strip(t) == RStrip(LStrip(t))

\* ------------------------------------------------------------ json.loads()
\* decoded values: type, the keys of an object, and the two fields the base
\* class reads; repr names the value
JVal(type, keys, error, permissions, repr) ==
    [type |-> type, keys |-> keys, error |-> error,
     permissions |-> permissions, repr |-> repr]
JNone == JVal("NoneType", {}, PyNone, <<>>, "None")
\* a permission record: its keys and the two fields the handler reads
Perm(keys, permission, granted) ==
    [keys |-> keys, permission |-> permission, granted |-> granted]

\* the text of a line body: what decode().strip() yields for a well-formed line
Text(l) == Strip(Decode(l).text)

\* the texts of the server's lines
T_err == Text(L_err)
T_errnull == Text(L_errnull)
T_errlat == Text(L_errlat)
T_lat1 == Text(L_lat1)
T_lat2 == Text(L_lat2)
T_status == Text(L_status)
T_int == Text(L_int)
T_permok == Text(L_permok)
T_permdeny == Text(L_permdeny)
T_permbad == Text(L_permbad)
T_badjson == Text(L_badjson)

\* json.loads on the texts of the server's lines (ok = FALSE: JSONDecodeError)
JsonLoads(text) ==
    CASE text = T_err ->
           [ok |-> TRUE, value |-> JVal("dict", {"error"}, PyStr("m"), <<>>,
                                        "{'error': 'm'}")]
      [] text = T_errnull ->
           [ok |-> TRUE, value |-> JVal("dict", {"error"}, PyNone, <<>>,
                                        "{'error': None}")]
      [] text = T_errlat ->
           [ok |-> TRUE, value |-> JVal("dict", {"error", "permissions", "latitude"},
                                        PyStr("m"), <<>>,
                                        "{'error': 'm', 'permissions': [], 'latitude': 1}")]
      [] text = T_lat1 ->
           [ok |-> TRUE, value |-> JVal("dict", {"latitude"}, PyNone, <<>>,
                                        "{'latitude': 1}")]
      [] text = T_lat2 ->
           [ok |-> TRUE, value |-> JVal("dict", {"latitude"}, PyNone, <<>>,
                                        "{'latitude': 2}")]
      [] text = T_status ->
           [ok |-> TRUE, value |-> JVal("dict", {"s"}, PyNone, <<>>, "{'s': 'e'}")]
      [] text = T_int ->
           [ok |-> TRUE, value |-> JVal("int", {}, PyNone, <<>>, "5")]
      [] text = T_permok ->
           [ok |-> TRUE, value |-> JVal("dict", {"permissions"}, PyNone,
                                        <<Perm({"permission", "granted"}, "A", TRUE)>>,
                                        "{'permissions': [A granted]}")]
      [] text = T_permdeny ->
           [ok |-> TRUE, value |-> JVal("dict", {"permissions"}, PyNone,
                                        <<Perm({"permission", "granted"}, "A", TRUE),
                                          Perm({"permission", "granted"}, "B", FALSE)>>,
                                        "{'permissions': [A granted, B denied]}")]
      [] text = T_permbad ->
           [ok |-> TRUE, value |-> JVal("dict", {"permissions"}, PyNone,
                                        <<Perm({}, "", FALSE)>>,
                                        "{'permissions': [{}]}")]
      [] text = T_badjson ->
           [ok |-> FALSE, value |-> JNone]

\* `key in data`: membership for an object, TypeError for a number
InRaises(data) == data.type = "int"
In(key, data) == key \in data.keys


\* ------------------------------------------------ location command arguments
\* strings as tuples of code points
S_gps == <<103, 112, 115>>
S_network == <<110, 101, 116, 119, 111, 114, 107>>
S_passive == <<112, 97, 115, 115, 105, 118, 101>>
S_once == <<111, 110, 99, 101>>
S_last == <<108, 97, 115, 116>>
S_updates == <<117, 112, 100, 97, 116, 101, 115>>

ALLOWED_PROVIDERS == {S_gps, S_network, S_passive}
ALLOWED_REQUESTS == {S_once, S_last, S_updates}

\* str.lower() on one code point: A-Z, the Kelvin sign (U+212A -> k) and
\* I with dot above (U+0130 -> i, U+0307); the other code points used here
\* have no lowercase mapping
LowerChar(c) ==
    IF c >= 65 /\ c <= 90 THEN <<c + 32>>
    ELSE IF c = 8490 THEN <<107>>
    ELSE IF c = 304 THEN <<105, 775>>
    ELSE <<c>>

RECURSIVE Lower(_)
Lower(t) == IF t = <<>> THEN <<>> ELSE LowerChar(Head(t)) \o Lower(Tail(t))

\* a _validate_parameters that checks the provider only
ValidateRaises_ProviderOnly(p, r) == p \notin ALLOWED_PROVIDERS

\* _validate_parameters raises ValueError
ValidateRaises(p, r) == p \notin ALLOWED_PROVIDERS \/ r \notin ALLOWED_REQUESTS

\* the word in capitals, and with a capital initial
Capitals(w) == [i \in 1..Len(w) |-> w[i] - 32]
Capitalized(w) == [i \in 1..Len(w) |-> IF i = 1 THEN w[i] - 32 ELSE w[i]]
CaseForms(w) == {w, Capitals(w), Capitalized(w)}

\* arguments the constructor is called with: the allowed words in three
\* letter cases, "NETWOR" + Kelvin sign, and "", "gps ", "gp", "once",
\* "PASS" + U+0130 + "VE" / "", " last", "onse", "gps"
ProviderArgs ==
    UNION {CaseForms(w) : w \in ALLOWED_PROVIDERS}
    \cup {<<78, 69, 84, 87, 79, 82, 8490>>}
    \cup {<<>>, <<103, 112, 115, 32>>, <<103, 112>>, S_once,
          <<80, 65, 83, 83, 304, 86, 69>>}
RequestArgs ==
    UNION {CaseForms(w) : w \in ALLOWED_REQUESTS}
    \cup {<<>>, <<32, 108, 97, 115, 116>>, <<111, 110, 115, 101>>, S_gps}

NoArgs == [provider |-> <<>>, request |-> <<>>]

\* ==================================================================== state
VARIABLES
    cpc,          \* position of the caller thread (constructor, execute)
    wpc,          \* position of the worker thread (run)
    variant,      \* class of the command instance
    provider,     \* self.provider of a location command (code points)
    request,      \* self.request of a location command (code points)
    args,         \* the arguments the location constructor is called with
    _socket,      \* self._socket: "None" or a reference to the socket object
    sock,         \* the socket object: "absent", "open" or "closed"
    _data,        \* self._data: the receive buffer (bytes)
    line,         \* the text last decoded from the buffer (code points)
    _result,      \* self._result
    _error,       \* self._error
    _event_stop,  \* self._event_stop
    response,     \* bytes returned by recv that the for loop has not reached yet
    cur,          \* the line the server is delivering, until it is dispatched
    wire,         \* bytes of that line that no recv has returned yet
    linesSent,    \* number of lines the server has started to deliver
    endless,      \* the server never runs out of lines to send
    exc,          \* exception propagating in the worker
    wdisc,        \* which call site of disconnect() the worker is in
    permIdx,      \* index of the permission loop
    data,         \* decoded object being routed
    alive,        \* what is_alive() returned to execute()
    ret,          \* the pair execute() returns: <<result, error>>
    nArrived,     \* number of lines whose newline a recv has returned (history)
    nDispatched,  \* number of lines passed to _process_line (history)
    first,        \* route and `error` value of the first line dispatched (history)
    invoked,      \* handlers called for the line dispatched last (history)
    terminated,   \* an error line or a denied permission has disconnected (history)
    sockCreated,  \* sockets created (history)
    connects,     \* connect() calls made on an open socket (history)
    sent,         \* requests written by sendall (history)
    closeCalls,   \* close() calls made on the socket object (history)
    fdCloses,     \* times the descriptor of the socket was released (history)
    nIgnored,     \* lines the data handler returned from without effect (history)
    connectErr,   \* how connect() failed: "", "refused" or "timeout" (history)
    recvAttempted,\* a recv() call has been started (history)
    eof           \* a recv() has returned b"" (history)

fields == <<_socket, sock, _data, _result, _error, _event_stop>>
server == <<response, cur, wire, linesSent, nArrived>>
wlocals == <<exc, wdisc, permIdx, data>>
clocals == <<alive, ret>>
dispatched == <<nDispatched, first, invoked>>
calls == <<sockCreated, connects, sent, closeCalls, fdCloses>>
outcomes == <<nIgnored, connectErr, recvAttempted, eof>>
history == <<dispatched, terminated, calls, outcomes>>
location == <<provider, request, args>>
vars == <<cpc, wpc, variant, location, endless, fields, line, server, wlocals, clocals, history>>

NoRet == <<JNone, PyNone>>
NoLine == [route |-> "", error |-> PyNone]

InitFields ==
    /\ cpc = "new" /\ wpc = "idle" /\ variant = "TermuxRpcClient"
    /\ provider = <<>> /\ request = <<>>
    /\ _socket = "None" /\ sock = "absent" /\ _data = <<>> /\ line = <<>>
    /\ _result = JNone /\ _error = PyNone /\ _event_stop = FALSE
    /\ response = <<>> /\ cur = <<>> /\ wire = <<>> /\ linesSent = 0 /\ nArrived = 0
    /\ exc = NoExc /\ wdisc = "" /\ permIdx = 0 /\ data = JNone
    /\ alive = FALSE /\ ret = NoRet
    /\ nDispatched = 0 /\ first = NoLine /\ invoked = {} /\ terminated = FALSE
    /\ sockCreated = 0 /\ connects = 0 /\ sent = 0 /\ closeCalls = 0 /\ fdCloses = 0
    /\ nIgnored = 0 /\ connectErr = "" /\ recvAttempted = FALSE /\ eof = FALSE

\* a command about to be constructed with the default arguments
Init == InitFields /\ args = NoArgs /\ endless = FALSE

\* the same, facing a server that streams lines without end
InitEndless == InitFields /\ args = NoArgs /\ endless = TRUE

\* a location command about to be constructed with given arguments
InitLocation ==
    /\ InitFields
    /\ \E p \in ProviderArgs, r \in RequestArgs : args = [provider |-> p, request |-> r]
    /\ endless = FALSE

\* ============================================================== constructor
\* TermuxRpcClient.__init__ (and the subclass constructors with valid
\* arguments): sets the fields; the method identifier is not looked at.
Construct ==
    /\ cpc = "new"
    /\ \E v \in Variants :
         /\ variant' = v
         /\ provider' = IF v = "TermuxLocationCommand" THEN S_network ELSE <<>>
         /\ request' = IF v = "TermuxLocationCommand" THEN S_once ELSE <<>>
    /\ UNCHANGED args
    /\ _socket' = "None" /\ _data' = <<>> /\ _result' = JNone
    /\ _error' = PyNone /\ _event_stop' = FALSE
    /\ cpc' = "constructed"
    /\ UNCHANGED <<wpc, endless, sock, line, server, wlocals, clocals, history>>

\* TermuxLocationCommand.__init__(provider, request): super().__init__(),
\* self.provider = provider.lower(), self.request = request.lower(), then
\* _validate_parameters(), which raises ValueError
LocationInit ==
    /\ cpc = "new" /\ args # NoArgs
    /\ variant' = "TermuxLocationCommand"
    /\ _socket' = "None" /\ _data' = <<>> /\ _result' = JNone
    /\ _error' = PyNone /\ _event_stop' = FALSE
    /\ provider' = Lower(args.provider)
    /\ request' = Lower(args.request)
    /\ cpc' = IF ValidateRaises(provider', request') THEN "ctor_raised" ELSE "constructed"
    /\ args' = NoArgs
    /\ UNCHANGED <<wpc, endless, sock, line, server, wlocals, clocals, history>>

\* =============================================================== disconnect
\* socket.close() on the socket object: releases the descriptor the first
\* time, does nothing on a socket that is already closed
SockClose(s) == IF s = "open" THEN "closed" ELSE s
Releases(s) == IF s = "open" THEN 1 ELSE 0

\* disconnect() without its try/except around close()
DisconnectCatches_NoTry(type) == FALSE

\* except Exception in disconnect(): what it catches
DisconnectCatches(type) == type \in ExceptionSubclasses

\* The four steps of disconnect() run by the thread at position p; pNext is
\* the next position, retTo the position after the call, raiseTo the position
\* an exception leaving disconnect() would lead to.
DisconnectStep(p, pNext, retTo, raiseTo) ==
    \/ /\ p = "disc_flag"                             \* self._event_stop = True
       /\ _event_stop' = TRUE
       /\ pNext = "disc_check"
       /\ UNCHANGED <<_socket, sock, closeCalls, fdCloses>>
    \/ /\ p = "disc_check"                            \* if self._socket:
       /\ pNext = IF _socket # "None" THEN "disc_close" ELSE retTo
       /\ UNCHANGED <<_event_stop, _socket, sock, closeCalls, fdCloses>>
    \/ /\ p = "disc_close"                            \* self._socket.close()
       /\ IF _socket = "None"
            THEN \* None has no close(): AttributeError, handled by the except
                 /\ pNext = IF DisconnectCatches("AttributeError")
                              THEN "disc_none" ELSE "disc_none_raise"
                 /\ UNCHANGED <<sock, closeCalls, fdCloses>>
            ELSE /\ sock' = SockClose(sock)
                 /\ closeCalls' = closeCalls + 1
                 /\ fdCloses' = fdCloses + Releases(sock)
                 /\ pNext = "disc_none"
       /\ UNCHANGED <<_event_stop, _socket>>
    \/ /\ p \in {"disc_none", "disc_none_raise"}      \* finally: self._socket = None
       /\ _socket' = "None"
       /\ pNext = IF p = "disc_none" THEN retTo ELSE raiseTo
       /\ UNCHANGED <<_event_stop, sock, closeCalls, fdCloses>>

DiscPositions == {"disc_flag", "disc_check", "disc_close", "disc_none", "disc_none_raise"}

\* ================================================================== execute
\* self.start()
Start ==
    /\ cpc = "constructed"
    /\ cpc' = "join" /\ wpc' = "connect_socket"
    /\ UNCHANGED <<variant, location, endless, fields, line, server, wlocals, clocals, history>>

WorkerFinished == wpc \in {"done", "crashed"}

\* self.join(timeout=self.timeout) returns when the worker has finished or
\* when the timeout elapses, which may be at any moment; then
\* if self.is_alive():
JoinIsAlive ==
    /\ cpc = "join"
    /\ alive' = ~WorkerFinished
    /\ cpc' = IF alive' THEN "set_error" ELSE "ret_result"
    /\ UNCHANGED <<wpc, variant, location, endless, fields, line, server, wlocals, ret, history>>

\* self._error = "Request timed out"
SetTimeoutError ==
    /\ cpc = "set_error"
    /\ _error' = PyStr("Request timed out")
    /\ cpc' = "disc_flag"
    /\ UNCHANGED <<wpc, variant, location, endless, _socket, sock, _data, line, _result, _event_stop,
                   server, wlocals, clocals, history>>

\* self.disconnect() called by execute()
CallerDisconnect ==
    /\ cpc \in DiscPositions
    /\ DisconnectStep(cpc, cpc', "ret_result", "raised")
    /\ UNCHANGED <<wpc, variant, location, endless, _data, line, _result, _error, server, wlocals, clocals,
                   dispatched, terminated, sockCreated, connects, sent, outcomes>>

\* return self._result, self._error : two loads, then the pair
ReturnLoadResult ==
    /\ cpc = "ret_result"
    /\ ret' = <<_result, ret[2]>>
    /\ cpc' = "ret_error"
    /\ UNCHANGED <<wpc, variant, location, endless, fields, line, server, wlocals, alive, history>>

ReturnLoadError ==
    /\ cpc = "ret_error"
    /\ ret' = <<ret[1], _error>>
    /\ cpc' = "returned"
    /\ UNCHANGED <<wpc, variant, location, endless, fields, line, server, wlocals, alive, history>>


\* ====================================================================== run
\* an exception raised inside the try block of run()
Raise(e) == wpc' = "except" /\ exc' = e

\* the calls made on self._socket by the worker: what the attribute load and
\* the state of the socket object make of them before any I/O happens
SocketCallFails == _socket = "None" \/ sock # "open"
SocketCallExc(noAttribute) ==
    IF _socket = "None"
      THEN Exc("AttributeError", noAttribute)
      ELSE Exc("OSError", "[Errno 9] Bad file descriptor")

\* the worker starts a call of disconnect() from the given call site
CallDisconnect(site) == wpc' = "disc_flag" /\ wdisc' = site

\* the worker has left the receive loop for good: it reads nothing more, and
\* what the server had left to deliver is dropped with the connection
Abandon ==
    /\ response' = <<>> /\ cur' = <<>> /\ wire' = <<>>
    /\ UNCHANGED <<linesSent, nArrived>>

\* --- _connect
\* self._socket = socket.socket(socket.AF_INET, socket.SOCK_STREAM)
ConnectSocket ==
    /\ wpc = "connect_socket"
    /\ _socket' = "sock" /\ sock' = "open"
    /\ sockCreated' = sockCreated + 1
    /\ wpc' = "connect_settimeout"
    /\ UNCHANGED <<cpc, variant, location, endless, _data, line, _result, _error, _event_stop, server,
                   wlocals, clocals, dispatched, terminated, connects, sent,
                   closeCalls, fdCloses, outcomes>>

\* self._socket.settimeout(self.timeout)
ConnectSetTimeout ==
    /\ wpc = "connect_settimeout"
    /\ IF SocketCallFails
         THEN Raise(SocketCallExc("'NoneType' object has no attribute 'settimeout'"))
         ELSE wpc' = "connect_connect" /\ UNCHANGED exc
    /\ UNCHANGED <<cpc, variant, location, endless, fields, line, server, wdisc, permIdx, data, clocals, history>>

\* a run() that answers a failed connect by connecting again
ConnectFailed_Retry(e) == wpc' = "connect_socket" /\ UNCHANGED exc

\* connect() raises: the exception leaves _connect and the try block of run()
ConnectFailed(e) == Raise(e)

\* self._socket.connect((self.host, self.port))
ConnectConnect ==
    /\ wpc = "connect_connect"
    /\ IF SocketCallFails
         THEN /\ Raise(SocketCallExc("'NoneType' object has no attribute 'connect'"))
              /\ UNCHANGED <<connects, connectErr>>
         ELSE /\ connects' = connects + 1
              /\ \/ wpc' = "send_check" /\ UNCHANGED <<exc, connectErr>>
                 \/ /\ ConnectFailed(Exc("ConnectionRefusedError", "[Errno 111] Connection refused"))
                    /\ connectErr' = "refused"
                 \/ /\ ConnectFailed(Exc("socket.timeout", "timed out"))
                    /\ connectErr' = "timeout"
    /\ UNCHANGED <<cpc, variant, location, endless, fields, line, server, wdisc, permIdx, data, clocals,
                   dispatched, terminated, sockCreated, sent, closeCalls, fdCloses,
                   nIgnored, recvAttempted, eof>>

\* --- _send_request
\* if self._socket:
SendCheck ==
    /\ wpc = "send_check"
    /\ wpc' = IF _socket # "None" THEN "send_sendall" ELSE "recv_guard"
    /\ UNCHANGED <<cpc, variant, location, endless, fields, line, server, wlocals, clocals, history>>

\* a _send_request that may write its request again
SendAll_Resend ==
    /\ wpc = "send_sendall"
    /\ sent' = sent + 1
    /\ wpc' \in {"send_sendall", "recv_guard"}
    /\ UNCHANGED <<cpc, variant, location, endless, fields, line, server, wlocals, clocals,
                   dispatched, terminated, sockCreated, connects, closeCalls, fdCloses,
                   outcomes>>

\* self.to_json() (raises without a method identifier), then
\* self._socket.sendall(self.to_json().encode() + b"\n")
SendAll ==
    /\ wpc = "send_sendall"
    /\ IF ToDictRaises(variant)
         THEN /\ Raise(Exc("NotImplementedError", "API_METHOD must be defined in subclass"))
              /\ UNCHANGED sent
         ELSE IF SocketCallFails
         THEN Raise(SocketCallExc("'NoneType' object has no attribute 'sendall'")) /\ UNCHANGED sent
         ELSE \/ wpc' = "recv_guard" /\ sent' = sent + 1 /\ UNCHANGED exc
              \/ Raise(Exc("OSError", "[Errno 32] Broken pipe")) /\ UNCHANGED sent
              \/ Raise(Exc("socket.timeout", "timed out")) /\ UNCHANGED sent
    /\ UNCHANGED <<cpc, variant, location, endless, fields, line, server, wdisc, permIdx, data, clocals,
                   dispatched, terminated, sockCreated, connects, closeCalls, fdCloses,
                   outcomes>>

\* --- _receive_responses
\* if not self._socket: return
RecvGuard ==
    /\ wpc = "recv_guard"
    /\ IF _socket = "None"
         THEN CallDisconnect("finally") /\ Abandon
         ELSE wpc' = "loop_check" /\ UNCHANGED <<wdisc, server>>
    /\ UNCHANGED <<cpc, variant, location, endless, fields, line, exc, permIdx, data, clocals, history>>

\* a loop that never takes the stop flag as set
StopRequested_Never == FALSE

\* the test of the stop flag at the head of the receive loop
StopRequested == _event_stop

\* while not self._event_stop:
LoopCheck ==
    /\ wpc = "loop_check"
    /\ IF StopRequested
         THEN CallDisconnect("finally") /\ Abandon
         ELSE wpc' = "recv_call" /\ UNCHANGED <<wdisc, server>>
    /\ UNCHANGED <<cpc, variant, location, endless, fields, line, exc, permIdx, data, clocals, history>>

\* self._socket.recv(...): the attribute load and the entry into the call
RecvCall ==
    /\ wpc = "recv_call"
    /\ IF SocketCallFails
         THEN Raise(SocketCallExc("'NoneType' object has no attribute 'recv'"))
         ELSE wpc' = "recv_wait" /\ UNCHANGED exc
    /\ recvAttempted' = TRUE
    /\ UNCHANGED <<cpc, variant, location, endless, fields, line, server, wdisc, permIdx, data, clocals,
                   dispatched, terminated, calls, nIgnored, connectErr, eof>>

\* the history counts lines up to MaxLines; a stream bounded by MaxLines never
\* reaches the cap
Counted(n) == IF n < MaxLines THEN n + 1 ELSE n

\* of a stream that never ends only the lines sent are counted; the lines
\* that arrived and what became of them are recorded for a bounded stream
Recorded(n) == IF endless THEN n ELSE Counted(n)

\* the lines a server that never stops streaming sends: a status line, a
\* line of granted permissions, a line that is not JSON, an error
StreamLines == {L_status, L_permok, L_badjson, L_err}

\* the lines the server may start next
NextLines == IF endless THEN StreamLines ELSE ServerLines

\* The bytes the scan meets next: the rest of the line in delivery or, when
\* there is none, a line the server starts now; k of them are in this read.
\* A line has arrived when its newline is among them.
Deliver ==
    \E l \in (IF wire # <<>> THEN {cur} ELSE NextLines) :
      LET rest == IF wire # <<>> THEN wire ELSE l IN
      \E k \in 1..Len(rest) :
        /\ k <= RECV_BUFFER_SIZE
        /\ (k = Len(rest) \/ Len(l) - Len(rest) + k <= MaxCut)
        /\ cur' = l
        /\ response' = SubSeq(rest, 1, k)
        /\ wire' = SubSeq(rest, k + 1, Len(rest))
        /\ linesSent' = IF wire # <<>> THEN linesSent ELSE Counted(linesSent)
        /\ nArrived' = IF k = Len(rest) THEN Recorded(nArrived) ELSE nArrived

CanDeliver == wire # <<>> \/ linesSent < MaxLines \/ endless

\* recv returns some bytes
RecvData ==
    /\ wpc = "recv_wait"
    /\ CanDeliver
    /\ Deliver
    /\ wpc' = "scan"
    /\ UNCHANGED <<cpc, variant, location, endless, fields, line, wlocals, clocals, history>>

\* a loop that reports the end of the stream as an error
RecvEof_AsError ==
    /\ wpc = "recv_wait"
    /\ _error' = PyStr("Connection closed")
    /\ CallDisconnect("finally")
    /\ Abandon
    /\ eof' = TRUE
    /\ UNCHANGED <<cpc, variant, location, endless, _socket, sock, _data, line, _result, _event_stop,
                   exc, permIdx, data, clocals,
                   dispatched, terminated, calls, nIgnored, connectErr, recvAttempted>>

\* recv returns b"": the peer has closed; break
RecvEof ==
    /\ wpc = "recv_wait"
    /\ CallDisconnect("finally")
    /\ Abandon
    /\ eof' = TRUE
    /\ UNCHANGED <<cpc, variant, location, endless, fields, line, exc, permIdx, data, clocals,
                   dispatched, terminated, calls, nIgnored, connectErr, recvAttempted>>

\* recv raises socket.timeout: self._error = "Receive timed out"; break
RecvTimeout ==
    /\ wpc = "recv_wait"
    /\ _error' = PyStr("Receive timed out")
    /\ CallDisconnect("finally")
    /\ Abandon
    /\ UNCHANGED <<cpc, variant, location, endless, _socket, sock, _data, line, _result, _event_stop,
                   exc, permIdx, data, clocals, history>>

\* recv raises another OSError (reset by the peer, descriptor closed under it)
RecvOSError ==
    /\ wpc = "recv_wait"
    /\ Raise(Exc("OSError", "[Errno 104] Connection reset by peer"))
    /\ UNCHANGED <<cpc, variant, location, endless, fields, line, server, wdisc, permIdx, data, clocals, history>>


\* --- the for loop over the bytes of a read, _process_line, _handle_response
\* route of a decoded line: which handler _handle_response calls
Route(d) ==
    IF InRaises(d) THEN "raise"
    ELSE IF In("error", d) THEN "error"
    ELSE IF In("permissions", d) THEN "permissions"
    ELSE "data"

\* bookkeeping of a call of _process_line
Dispatch(route, value) ==
    /\ nDispatched' = Recorded(nDispatched)
    /\ first' = IF nDispatched = 0 /\ ~endless
                THEN [route |-> route, error |-> value.error] ELSE first
    /\ invoked' = {}

\* _process_line without its except clause: the decoding error propagates
ProcessLine_NoExcept(text) ==
    \E j \in {JsonLoads(text)} :
    /\ Dispatch(IF j.ok THEN Route(j.value) ELSE "invalid", j.value)
    /\ UNCHANGED _error
    /\ IF ~j.ok
         THEN Raise(Exc("JSONDecodeError", "Expecting value")) /\ UNCHANGED data
         ELSE CASE Route(j.value) = "raise" ->
                     /\ Raise(Exc("TypeError", "argument of type 'int' is not iterable"))
                     /\ UNCHANGED data
                [] Route(j.value) = "error" ->
                     wpc' = "handle_error" /\ data' = j.value /\ UNCHANGED exc
                [] Route(j.value) = "permissions" ->
                     wpc' = "handle_permissions" /\ data' = j.value /\ UNCHANGED exc
                [] OTHER ->
                     wpc' = "handle_data" /\ data' = j.value /\ UNCHANGED exc

\* json.loads(line) and the routing of _handle_response
ProcessLine(text) ==
    \E j \in {JsonLoads(text)} :
    IF ~j.ok
      THEN \* except json.JSONDecodeError: self._error = f"Invalid JSON: {line}"
           /\ _error' = PyFmtLine("Invalid JSON: ", text)
           /\ Dispatch("invalid", JNone)
           /\ wpc' = "for_next"
           /\ UNCHANGED <<exc, data>>
      ELSE /\ Dispatch(Route(j.value), j.value)
           /\ UNCHANGED _error
           /\ CASE Route(j.value) = "raise" ->
                     /\ Raise(Exc("TypeError", "argument of type 'int' is not iterable"))
                     /\ UNCHANGED data
                [] Route(j.value) = "error" ->
                     wpc' = "handle_error" /\ data' = j.value /\ UNCHANGED exc
                [] Route(j.value) = "permissions" ->
                     wpc' = "handle_permissions" /\ data' = j.value /\ UNCHANGED exc
                [] OTHER ->
                     wpc' = "handle_data" /\ data' = j.value /\ UNCHANGED exc

\* self._data.append(byte) for the bytes of a read
Buffered(buf, bytes) == buf \o bytes

\* a loop that does not empty the buffer after decoding a line
Cleared_Kept(buf) == buf

\* self._data.clear()
Cleared(buf) == <<>>

\* for byte in response: self._data.append(byte); at a newline decode, strip,
\* clear and process the line.  response holds at most one newline, its last
\* byte.  (buf, d and text are each evaluated once, as the one element of a set.)
Scan ==
    /\ wpc = "scan"
    /\ response' = <<>>
    /\ \E buf \in {Buffered(_data, response)} :
       IF response[Len(response)] = NEWLINE
         THEN \E d \in {Decode(buf)} :
              IF ~d.ok
                THEN /\ Raise(Exc("UnicodeDecodeError", "'utf-8' codec can't decode byte"))
                     /\ _data' = buf
                     /\ UNCHANGED <<line, _error, data, dispatched>>
                ELSE \E text \in {Strip(d.text)} :
                     /\ line' = text
                     /\ _data' = Cleared(buf)
                     /\ ProcessLine(text)
         ELSE /\ _data' = buf
              /\ wpc' = "loop_check"
              /\ UNCHANGED <<line, _error, exc, data, dispatched>>
    /\ permIdx' = 1
    /\ cur' = IF wire = <<>> THEN <<>> ELSE cur
    /\ UNCHANGED <<cpc, variant, location, endless, _socket, sock, _result, _event_stop,
                   wire, linesSent, nArrived, wdisc, clocals,
                   terminated, calls, outcomes>>

\* the next iteration of the for loop: the read is exhausted, or it holds
\* bytes of a further line
ForNextEnd ==
    /\ wpc = "for_next"
    /\ wpc' = "loop_check"
    /\ UNCHANGED <<cpc, variant, location, endless, fields, line, server, wlocals, clocals, history>>

ForNextMore ==
    /\ wpc = "for_next"
    /\ linesSent < MaxLines
    /\ Deliver
    /\ wpc' = "scan"
    /\ UNCHANGED <<cpc, variant, location, endless, fields, line, wlocals, clocals, history>>

\* --- _handle_error: self._error = error_msg; self.disconnect()
HandleError ==
    /\ wpc = "handle_error"
    /\ invoked' = invoked \cup {"_handle_error"}
    /\ _error' = data.error
    /\ CallDisconnect("error")
    /\ UNCHANGED <<cpc, variant, location, endless, _socket, sock, _data, line, _result, _event_stop,
                   server, exc, permIdx, data, clocals, nDispatched, first,
                   terminated, calls, outcomes>>

\* --- _handle_permissions
\* a permission handler that takes every record as denied
Denied_Always(perm) == TRUE

\* if not perm['granted']:
Denied(perm) == ~perm.granted

\* one iteration of `for perm in permissions`
HandlePermissions ==
    /\ wpc = "handle_permissions"
    /\ invoked' = invoked \cup {"_handle_permissions"}
    /\ IF permIdx > Len(data.permissions)
         THEN /\ wpc' = "for_next" /\ data' = JNone
              /\ UNCHANGED <<_error, exc, wdisc, permIdx>>
         ELSE LET perm == data.permissions[permIdx] IN
              IF ~({"permission", "granted"} \subseteq perm.keys)
                THEN /\ Raise(Exc("KeyError", "'permission'"))
                     /\ UNCHANGED <<_error, wdisc, permIdx, data>>
                ELSE IF Denied(perm)
                THEN /\ _error' = PyFmtName("Permission denied: ", perm.permission)
                     /\ CallDisconnect("perm")
                     /\ permIdx' = permIdx + 1
                     /\ UNCHANGED <<exc, data>>
                ELSE /\ permIdx' = permIdx + 1
                     /\ UNCHANGED <<wpc, _error, exc, wdisc, data>>
    /\ UNCHANGED <<cpc, variant, location, endless, _socket, sock, _data, line, _result, _event_stop,
                   server, clocals, nDispatched, first,
                   terminated, calls, outcomes>>

\* --- _handle_data of the four classes
\* a location command that keeps any data object, with or without `latitude`
Qualifies_AnyLine(v, d) == v # "TermuxRpcClient"

\* does the class keep this data object as its result?
Qualifies(v, d) ==
    CASE v = "TermuxLocationCommand" -> In("latitude", d)
      [] v = "TermuxNotificationListCommand" -> TRUE
      [] v = "TermuxNotificationRemoveCommand" -> TRUE
      [] OTHER -> FALSE

\* a data handler that keeps the result and returns without disconnecting
DataDisconnect_Skipped == wpc' = "for_next" /\ UNCHANGED wdisc

\* self.disconnect() at the end of a data handler
DataDisconnect == CallDisconnect("data")

HandleData ==
    /\ wpc = "handle_data"
    /\ invoked' = invoked \cup {"_handle_data"}
    /\ IF variant = "TermuxRpcClient"
         THEN \* raise NotImplementedError
              /\ Raise(Exc("NotImplementedError", ""))
              /\ UNCHANGED <<_result, wdisc, data, nIgnored>>
         ELSE IF Qualifies(variant, data)
         THEN \* self._result = data; self.disconnect()
              /\ _result' = data
              /\ DataDisconnect
              /\ UNCHANGED <<exc, data, nIgnored>>
         ELSE /\ wpc' = "for_next" /\ data' = JNone
              /\ nIgnored' = Recorded(nIgnored)
              /\ UNCHANGED <<_result, exc, wdisc>>
    /\ UNCHANGED <<cpc, variant, location, endless, _socket, sock, _data, line, _error, _event_stop,
                   server, permIdx, clocals, nDispatched, first,
                   terminated, calls, connectErr, recvAttempted, eof>>

\* --- the except clauses and the finally clause of run()
\* run() with only its two specific except clauses
RunCatches_NoGenericClause(type) == FALSE

\* except Exception: the classes it catches
RunCatches(type) == type \in ExceptionSubclasses

\* a run() without its finally clause: a caught exception ends the worker
Except_NoFinally ==
    /\ wpc = "except"
    /\ _error' = PyFmtName("Unexpected error: ", exc.msg)
    /\ wpc' = "done"
    /\ exc' = NoExc
    /\ data' = JNone
    /\ Abandon
    /\ UNCHANGED <<cpc, variant, location, endless, _socket, sock, _data, line, _result, _event_stop,
                   wdisc, permIdx, clocals, history>>

Except ==
    /\ wpc = "except"
    /\ IF exc.type = "socket.timeout"
         THEN _error' = PyStr("Connection timed out") /\ CallDisconnect("finally")
         ELSE IF exc.type = "ConnectionRefusedError"
         THEN _error' = PyStr("Connection refused") /\ CallDisconnect("finally")
         ELSE IF RunCatches(exc.type)
         THEN /\ _error' = PyFmtName("Unexpected error: ", exc.msg)
              /\ CallDisconnect("finally")
         ELSE \* not caught: the finally clause runs and the exception leaves run()
              UNCHANGED _error /\ CallDisconnect("finally_uncaught")
    /\ exc' = NoExc
    /\ data' = JNone
    /\ Abandon
    /\ UNCHANGED <<cpc, variant, location, endless, _socket, sock, _data, line, _result, _event_stop,
                   permIdx, clocals, history>>

\* where a call of disconnect() returns to in the worker
WorkerReturnTo ==
    CASE wdisc \in {"error", "data"} -> "for_next"
      [] wdisc = "perm" -> "handle_permissions"
      [] wdisc = "finally" -> "done"
      [] OTHER -> "crashed"

\* where an exception leaving disconnect() goes: the try block of run() when
\* a handler made the call, out of run() when the finally clause did
WorkerRaiseTo == IF wdisc \in {"error", "data", "perm"} THEN "except" ELSE "crashed"

\* self.disconnect() called by the worker
WorkerDisconnect ==
    /\ wpc \in DiscPositions
    /\ DisconnectStep(wpc, wpc', WorkerReturnTo, WorkerRaiseTo)
    /\ terminated' = (terminated \/ (wpc' = WorkerReturnTo /\ wdisc \in {"error", "perm"}))
    /\ exc' = IF wpc' = "except"
                THEN Exc("AttributeError", "'NoneType' object has no attribute 'close'")
                ELSE exc
    /\ data' = IF wpc' = "for_next" THEN JNone ELSE data
    /\ UNCHANGED <<cpc, variant, location, endless, _data, line, _result, _error, server, wdisc, permIdx,
                   clocals, dispatched, sockCreated, connects, sent, outcomes>>

\* ============================================================ specification
\* execute() in the caller thread
Caller ==
    \/ Start \/ JoinIsAlive \/ SetTimeoutError
    \/ CallerDisconnect \/ ReturnLoadResult \/ ReturnLoadError

\* run() up to the request it sends, with its except and finally clauses
Connecting ==
    \/ ConnectSocket \/ ConnectSetTimeout \/ ConnectConnect
    \/ SendCheck \/ SendAll
    \/ Except \/ WorkerDisconnect

\* _receive_responses and the handlers
Receiving ==
    \/ RecvGuard \/ LoopCheck
    \/ RecvCall \/ RecvData \/ RecvEof \/ RecvTimeout \/ RecvOSError
    \/ Scan \/ ForNextEnd \/ ForNextMore
    \/ HandleError \/ HandlePermissions \/ HandleData

Next == Construct \/ Caller \/ Connecting \/ Receiving

Spec == Init /\ [][Next]_vars

\* a location command constructed with given arguments and executed up to the
\* request it sends, which carries self.provider and self.request
NextLocation == LocationInit \/ Caller \/ Connecting

SpecLocation == InitLocation /\ [][NextLocation]_vars

\* the worker thread is scheduled, and every socket call it is blocked in
\* returns (with data, end of stream, a timeout or a failure)
WorkerFair == WF_vars(Connecting \/ Receiving)

\* an execution against an endless stream, the worker scheduled fairly
SpecEndless == InitEndless /\ [][Next]_vars /\ WorkerFair


\* ================================================================== claims
Returned == cpc = "returned"
\* the worker takes a step
WorkerSteps == wpc' # wpc
\* the worker's scan has a complete line, newline included, before it
LineAtScan == wpc = "scan" /\ wire = <<>>

\* C1: whenever execute() found the worker alive at the deadline, the error of
\* the pair it returns is "Request timed out", in every interleaving.
C1_TimeoutErrorReturned ==
    (Returned /\ alive) => ret[2] = PyStr("Request timed out")

\* C2: from the return of execute() on, the instance holds no open socket.
C2_SocketClosedOnReturn ==
    Returned => (_socket = "None" /\ sock # "open")

\* C3: once an error line or a denied permission has set the error and
\* disconnected, no further line is dispatched and no data handler is called.
C3_NothingAfterTermination ==
    [][terminated =>
         /\ nDispatched' = nDispatched
         /\ ("_handle_data" \in invoked' => "_handle_data" \in invoked)]_vars

\* C4: once a qualifying data line has set the result, no later line of the
\* conversation overwrites it.
C4_FirstQualifyingLineWins ==
    [][_result # JNone => _result' = _result]_vars

\* C5: no exception leaves run() or execute(): every exception raised in the
\* worker reaches an except clause of run() that handles it, neither thread
\* ends with an uncaught exception, and what execute() returns is a pair of a
\* result and an error that is absent or a message.
C5_NoExceptionEscapes ==
    /\ wpc # "crashed" /\ cpc # "raised"
    /\ (wpc = "except" =>
          \/ exc.type \in {"socket.timeout", "ConnectionRefusedError"}
          \/ RunCatches(exc.type))
    /\ (wdisc # "finally_uncaught")
    /\ (Returned => (Len(ret) = 2 /\ ret[2].t \in {"NoneType", "str"}))

\* a malformed permission record raised in the handler, run() caught it and
\* execute() returned the pair
C5_Witness ==
    /\ Returned /\ wpc = "done" /\ ~alive
    /\ ret = <<JNone, PyFmtName("Unexpected error: ", "'permission'")>>

\* C6: an instance of a class without a method identifier never gets as far as
\* creating a socket or attempting a connect, and its failure is not an
\* outcome of the conversation.
C6_NoIoWithoutMethod ==
    (cpc # "new" /\ ToDictRaises(variant)) =>
        (sockCreated = 0 /\ connects = 0 /\ _error = PyNone)

\* C7: the disconnect() calls of the caller and of the worker, interleaved in
\* any way, never raise, release the socket's descriptor at most once, never
\* unset the stop flag, and leave the stop flag set and no socket held once
\* they have all returned.
C7_DisconnectIdempotent ==
    /\ cpc \notin {"raised", "disc_none_raise"}
    /\ wpc \notin {"crashed", "disc_none_raise"}
    /\ fdCloses <= 1
    /\ fdCloses <= closeCalls
    /\ ((wpc = "done" \/ terminated \/ (alive /\ cpc \in {"ret_result", "ret_error", "returned"}))
          => _event_stop)
    /\ ((wpc = "done" /\ cpc \notin DiscPositions)
          => (_event_stop /\ _socket = "None" /\ sock # "open"))

\* the caller and the worker have both called close() on the socket, and
\* every call of disconnect() has returned
C7_Witness ==
    /\ Returned /\ wpc = "done" /\ alive
    /\ closeCalls >= 2 /\ fdCloses = 1

\* C8: the dispatch of a line that is not JSON sets the error to
\* "Invalid JSON: <line>", leaves the stop flag, the socket and the result as
\* they are and goes on with the for loop; every line is dispatched when it
\* has arrived, before the next one arrives.
C8_InvalidJsonContinues ==
    [][/\ (LineAtScan /\ WorkerSteps /\ Decode(cur).ok /\ ~JsonLoads(Text(cur)).ok) =>
            /\ _error' = PyFmtLine("Invalid JSON: ", Text(cur))
            /\ _event_stop' = _event_stop
            /\ _socket' = _socket /\ sock' = sock
            /\ _result' = _result
            /\ nDispatched' = nDispatched + 1
            /\ wpc' = "for_next"
       /\ (nDispatched' # nDispatched =>
            LineAtScan /\ nArrived = nDispatched + 1 /\ nDispatched' = nArrived)
       /\ (nArrived' # nArrived => nArrived = nDispatched /\ nArrived' = nArrived + 1)
      ]_vars

\* a line that is not JSON was dispatched first, and the data line after it
\* was dispatched and set the result
C8_Witness ==
    /\ first.route = "invalid" /\ nDispatched = 2
    /\ _result # JNone
    /\ _error = PyFmtLine("Invalid JSON: ", Text(L_badjson))

\* C9: once set, the error is never reset to absent.
C9_ErrorNeverCleared ==
    [][_error # PyNone => _error' # PyNone]_vars

\* C10: an object with an `error` field goes to the error handler and to no
\* other handler, and when it is the first line (and the caller did not time
\* out) execute() returns no result and the message as the error.
C10_ErrorLineOnly ==
    /\ (wpc \in {"handle_permissions", "handle_data"} => ~In("error", data))
    /\ ("_handle_error" \in invoked => invoked = {"_handle_error"})
    /\ ((Returned /\ ~alive /\ first.route = "error") => ret = <<JNone, first.error>>)

\* execute() returns now, the worker having finished before the deadline
Returns == cpc = "ret_error" /\ cpc' = "returned" /\ ~alive

\* C11: the location command ignores a data line without `latitude` (result,
\* error, stop flag and socket unchanged, the loop goes on) and keeps a line
\* with `latitude`; so when the lines that arrived are any number of ignored
\* data lines and one latitude line (every line but the one kept as the result
\* was ignored), execute() returns that line's object with no error.
C11_LocationIgnoresOtherLines ==
    [][ /\ (variant = "TermuxLocationCommand" /\ wpc = "handle_data" /\ WorkerSteps)
           => IF In("latitude", data)
                THEN _result' = data /\ _error' = _error
                ELSE /\ UNCHANGED <<_result, _error, _event_stop, _socket, sock>>
                     /\ wpc' = "for_next"
        /\ (/\ Returns /\ variant = "TermuxLocationCommand"
            /\ nArrived = nDispatched /\ nDispatched = nIgnored + 1
            /\ _result # JNone)
           => (ret' = <<_result, PyNone>> /\ In("latitude", _result)) ]_vars

C11_Witness ==
    /\ Returned /\ ~alive /\ variant = "TermuxLocationCommand"
    /\ nIgnored = 1 /\ nDispatched = 2 /\ nArrived = 2
    /\ ret = <<JsonLoads(T_lat1).value, PyNone>>

\* every record of the permission list is well formed and granted
AllGranted(d) ==
    \A i \in 1..Len(d.permissions) :
        /\ {"permission", "granted"} \subseteq d.permissions[i].keys
        /\ d.permissions[i].granted

\* C12: a permission list whose records are all granted is ignored: while the
\* permission handler runs on it, result, error, stop flag and socket stay
\* unchanged, and it returns to the receive loop with no other handler (the
\* data handler in particular) invoked for that line.
C12_GrantedPermissionsIgnored ==
    [][ (wpc = "handle_permissions" /\ AllGranted(data) /\ WorkerSteps)
          => /\ UNCHANGED <<_result, _error, _event_stop, _socket, sock>>
             /\ wpc' \in {"handle_permissions", "for_next"}
             /\ invoked' = {"_handle_permissions"}
             /\ (wpc' = "for_next" <=> permIdx > Len(data.permissions)) ]_vars

C12_Witness ==
    /\ wpc = "for_next" /\ first.route = "permissions" /\ nDispatched = 1
    /\ invoked = {"_handle_permissions"} /\ permIdx = 2
    /\ _result = JNone /\ _error = PyNone /\ ~_event_stop /\ sock = "open"

\* the message run() records for the way connect() failed
ConnectMsg ==
    IF connectErr = "refused" THEN PyStr("Connection refused")
                              ELSE PyStr("Connection timed out")

\* C13: connect() is called at most once per execution; after it has failed
\* (refused or timed out) no request is sent, no recv is attempted and no line
\* is handled; the failure is recorded as the error once the worker has
\* finished, with the result absent, and execute() returns (absent, that
\* error) when the worker finished before the caller's deadline.
C13_ConnectionErrorNoRetry ==
    /\ connects <= 1 /\ sockCreated <= 1
    /\ (connectErr # "") =>
          /\ connects = 1 /\ sent = 0 /\ ~recvAttempted /\ nDispatched = 0
          /\ _result = JNone
          /\ wpc \in {"except", "done"} \cup DiscPositions
          /\ (wpc = "done" /\ cpc = "join") => _error = ConnectMsg
          /\ Returned => ret[1] = JNone
          /\ (Returned /\ ~alive) => ret = <<JNone, ConnectMsg>>

C13_Witness ==
    /\ Returned /\ ~alive /\ connectErr = "timeout" /\ connects = 1
    /\ ret = <<JNone, PyStr("Connection timed out")>>

\* C14: at most one request is sent in an execution; when a recv has been
\* attempted exactly one request has been sent before it; and once a recv has
\* been attempted nothing more is sent, whatever lines the server streams.
C14_ExactlyOneRequest ==
    [][ /\ sent' <= 1
        /\ recvAttempted' => sent' = 1
        /\ recvAttempted => sent' = sent ]_vars

C14_Witness == recvAttempted /\ sent = 1 /\ nDispatched = MaxLines /\ wpc = "done"

\* the string is the word in some letter case: letter by letter the lowercase
\* letter, its capital, or (for k) the Kelvin sign
LetterCases(c) == {c, c - 32} \cup (IF c = 107 THEN {8490} ELSE {})
InAnyCase(t, w) == Len(t) = Len(w) /\ \A i \in 1..Len(w) : t[i] \in LetterCases(w[i])
Names(t, words) == \E w \in words : InAnyCase(t, w)

\* C15: constructing a location command succeeds exactly when the provider
\* argument is gps, network or passive and the request argument is once, last
\* or updates, in any letter case, and then stores both lowercased; for every
\* other pair of strings it fails, and no socket is ever created or connected
\* for that instance.
C15_LocationArguments ==
    [][ /\ (cpc = "new" /\ cpc' # "new") =>
             /\ cpc' = (IF Names(args.provider, ALLOWED_PROVIDERS)
                           /\ Names(args.request, ALLOWED_REQUESTS)
                          THEN "constructed" ELSE "ctor_raised")
             /\ cpc' = "constructed" =>
                   /\ provider' \in ALLOWED_PROVIDERS /\ InAnyCase(args.provider, provider')
                   /\ request' \in ALLOWED_REQUESTS /\ InAnyCase(args.request, request')
        /\ cpc = "ctor_raised" => UNCHANGED vars
        /\ cpc' = "ctor_raised" =>
             (sockCreated' = 0 /\ connects' = 0 /\ sock' = "absent" /\ wpc' = "idle") ]_vars

\* a command whose arguments named passive and updates has been constructed,
\* has connected and has sent its request
C15_Witness ==
    /\ provider = S_passive /\ request = S_updates
    /\ sockCreated = 1 /\ connects = 1 /\ sent = 1

HasNewline(bs) == \E i \in 1..Len(bs) : bs[i] = NEWLINE

\* C16: framing does not depend on how the bytes of a line are split into
\* reads: a scan that does not reach the newline of the line only buffers (no
\* decode, no dispatch); the scan that reaches it finds in the buffer exactly
\* the bytes of the line, decodes them to the text a one-read delivery gives and
\* dispatches the line once, leaving the buffer empty; no other step decodes
\* or dispatches; and the buffer holds no newline while lines are dispatched.
C16_FramingIndependentOfReads ==
    [][ /\ (wpc = "scan" /\ WorkerSteps) =>
             IF wire = <<>>
               THEN /\ _data \o response = cur
                    /\ Decode(cur).ok =>
                          /\ line' = Text(cur) /\ _data' = <<>>
                          /\ nDispatched' = nDispatched + 1
                          /\ nDispatched' = nArrived
               ELSE /\ _data' \o wire = cur /\ ~HasNewline(_data')
                    /\ line' = line /\ nDispatched' = nDispatched
        /\ (wpc # "scan" \/ ~WorkerSteps) => (line' = line /\ nDispatched' = nDispatched)
        /\ HasNewline(_data') => (~Decode(_data').ok /\ wpc' \in {"except", "done"} \cup DiscPositions)
      ]_vars

\* a read has ended inside the two-byte character of a line: its bytes are
\* buffered, nothing has been decoded or dispatched
C16_Witness ==
    /\ wpc = "loop_check" /\ cur = L_status
    /\ _data = SubSeq(L_status, 1, 7) /\ wire = SubSeq(L_status, 8, Len(L_status))
    /\ line = <<>> /\ nDispatched = 0

\* the worker is inside a data handler (its body or the disconnect it calls)
InDataHandler == wpc = "handle_data" \/ (wpc \in DiscPositions /\ wdisc = "data")

\* C17: in every state outside the data handlers (between line dispatches and
\* after the loop), a result that is set comes with the stop flag set and no
\* open socket held, for every variant; and only a data handler sets the
\* result.
C17_ResultImpliesDisconnected ==
    /\ (_result # JNone /\ ~InDataHandler) =>
          (_event_stop /\ _socket = "None" /\ sock # "open")
    /\ _result # JNone =>
          (variant # "TermuxRpcClient" /\ nDispatched > 0 /\ Qualifies(variant, _result))

C17_Witness ==
    /\ variant = "TermuxNotificationListCommand" /\ cpc = "join"
    /\ wpc = "for_next" /\ nDispatched = 1 /\ _result = JsonLoads(T_status).value
    /\ _event_stop /\ _socket = "None" /\ sock = "closed"

\* the worker is in the disconnect() called by the finally clause of run()
InCleanup == wdisc = "finally"

\* C18: the worker terminates only by returning from the disconnect() of the
\* finally clause of run(); that disconnect() is entered once, from an exit
\* of the receive loop, from its guard or from an except clause; once entered
\* the worker does nothing but run it to its end (no line is dispatched, it is
\* not entered again); so a worker that has terminated has run it exactly once.
C18_CleanupExactlyOnce ==
    [][ /\ wpc' \notin {"crashed"}
        /\ (wpc' = "done" /\ wpc # "done") =>
              (InCleanup /\ wpc \in {"disc_check", "disc_none"})
        /\ (InCleanup' /\ ~InCleanup) =>
              /\ wpc \in {"recv_guard", "loop_check", "recv_wait", "except"}
              /\ wpc' = "disc_flag"
        /\ InCleanup =>
              /\ InCleanup'
              /\ nDispatched' = nDispatched /\ recvAttempted' = recvAttempted
              /\ wpc' \in {"disc_flag", "disc_check", "disc_close", "disc_none", "done"}
              /\ wpc' = "disc_flag" => wpc = "disc_flag"
        /\ wpc' = "done" => (InCleanup' /\ _event_stop') ]_vars

C18_Witness ==
    /\ wpc = "done" /\ InCleanup /\ cpc = "join"
    /\ _error = PyStr("Receive timed out") /\ nDispatched = 1
    /\ closeCalls = 1 /\ _socket = "None"

\* C19: a recv that returns no bytes makes the worker leave the receive loop
\* for its cleanup with result and error as they were; after it no line is
\* dispatched (bytes left in the buffer stay there) and, unless the caller's
\* deadline fires, result and error do not change; so execute() returns what
\* the handlers had set, (absent, absent) when no line was dispatched.
C19_EndOfStreamNoError ==
    [][ /\ (eof' /\ ~eof) =>
              /\ wpc = "recv_wait" /\ wpc' = "disc_flag" /\ InCleanup'
              /\ UNCHANGED <<_result, _error, _data, nDispatched>>
        /\ eof =>
              /\ UNCHANGED <<_result, _data, nDispatched, eof>>
              /\ cpc # "set_error" => _error' = _error
        /\ (Returns /\ eof) =>
              /\ ret' = <<_result, _error>>
              /\ nDispatched = 0 => ret' = NoRet ]_vars

\* the peer closed after an invalid line and part of a further line
C19_Witness ==
    /\ Returned /\ ~alive /\ eof
    /\ nDispatched = 1 /\ _data # <<>>
    /\ ret = <<JNone, PyFmtLine("Invalid JSON: ", T_badjson)>>

\* the caller's timeout path has called disconnect() and it has returned
TimeoutDisconnected == alive /\ cpc \in {"ret_result", "ret_error", "returned"}

\* C20: disconnect() has set the stop flag by the time it closes the socket,
\* and once the disconnect() of the caller's timeout path has returned the
\* worker eventually terminates, whatever the server goes on streaming.
C20_CancellationTerminates ==
    /\ [](closeCalls > 0 => _event_stop)
    /\ (TimeoutDisconnected ~> wpc = "done")

\* the caller has timed out and disconnected while the worker was reading
\* the endless stream; the worker, which had decoded a line and met neither
\* the end of the stream nor a connection error, has terminated
C20_Witness ==
    /\ TimeoutDisconnected /\ wpc = "done" /\ endless
    /\ sent = 1 /\ recvAttempted /\ line # <<>> /\ ~eof /\ connectErr = ""
    /\ _event_stop /\ _result = JNone

====
